---- MODULE Spec2Model ----
(***************************************************************************)
(* Model of the day-2 Intcode virtual machine (src/src/day-2/main.rs):     *)
(* MemoryBank, Instruction::decode / apply, VirtualMachine::from_tape,     *)
(* reset, step and run.                                                    *)
(*                                                                         *)
(* Addresses are 0-based as in the source; cell `index` of a memory bank   *)
(* is element index + 1 of the TLA+ sequence.                              *)
(*                                                                         *)
(* Scalar is usize.  Its width is kept, scaled down: a Scalar ranges over  *)
(* 0 .. ScalarMax.  `lhs + rhs` and `lhs * rhs` that exceed ScalarMax      *)
(* panic when the build has overflow checks (the debug and test profiles)  *)
(* and wrap modulo ScalarMax + 1 when it has not (the release profile).    *)
(***************************************************************************)
EXTENDS Integers, Naturals, Sequences, FiniteSets, TLC

\* ---------------------------------------------------------------- bounds
\* Largest Scalar value (usize::MAX, scaled down to 2^29 - 1 so that the sum
\* of two Scalars stays inside the model checker's integers; it is above the
\* target of the search).
ScalarMax == 536870911

\* Longest tape enumerated exhaustively.
MaxLen == 4

\* ------------------------------------------------------ program constants
OPERATION_CODE_ADD == 1
OPERATION_CODE_MULTIPLY == 2
OPERATION_CODE_HALT == 99

\* The advance of the program counter after a non-halting instruction.
PC_ADVANCE == 4

\* ------------------------------------------------------------ input sets
\* Cell values of the enumerated tapes: every address of a MaxLen tape,
\* the three opcodes, unknown opcodes (0, 3), addresses past the end
\* (99, ScalarMax) and a value whose sums and products overflow.
CellValues == (0 .. MaxLen - 1) \cup {OPERATION_CODE_HALT, ScalarMax}

RECURSIVE SeqsUpTo(_, _)
SeqsUpTo(S, n) ==
    IF n = 0 THEN {<<>>}
    ELSE LET shorter == SeqsUpTo(S, n - 1)
         IN  shorter \cup {Append(s, v) : s \in {t \in shorter : Len(t) = n - 1}, v \in S}

\* The tapes of the unit tests of the source.
TestTapes ==
    { <<1, 9, 10, 3, 2, 3, 11, 0, 99, 30, 40, 50>>,
      <<1, 0, 0, 0, 99>>,
      <<2, 3, 0, 3, 99>>,
      <<2, 4, 4, 5, 99, 0>>,
      <<1, 1, 1, 4, 99, 5, 6, 0, 99>> }

\* Short programs picked by hand: they halt, fail, overflow, write their own
\* next opcode or are cut by the end of the tape.
ProgramTapes ==
    { <<>>, <<99>>, <<0>>, <<1, 0, 0>>, <<1, 0, 0, 0>>, <<2, 0, 0, 4>>,
      <<1, 1, 2, 3>>, <<1, 0, 4, 0, ScalarMax>>, <<2, 4, 4, 3, ScalarMax>>,
      <<1, 4, 4, 99, ScalarMax>>, <<1, 4, 0, 3, 98>> }

\* Tapes handed to from_tape(): every tape of at most MaxLen cells, and the
\* longer programs above.
Tapes == SeqsUpTo(CellValues, MaxLen) \cup TestTapes \cup ProgramTapes

\* Tapes handed to reset().
ResetTapes == TestTapes \cup ProgramTapes

\* ----------------------------------------------------------------- state
VARIABLES
    memory,           \* VirtualMachine.memory
    program_counter,  \* VirtualMachine.program_counter
    overflow_checks,  \* build profile: arithmetic overflow panics (TRUE) or wraps
    tape,             \* the tape the VM was last loaded with
    op,               \* the last call: "from_tape", "reset", "step", "run"
    ret,              \* what the last step() returned
    pre_memory,       \* memory before the last step()
    pre_pc,           \* program counter before the last step()
    in_run,           \* control is inside the loop of run()
    run_ret,          \* what the last run() returned
    prior,            \* what the VM had last done when it was loaded
    since_load,       \* the calls made since the load: "none", "run", "other"
    run_steps,        \* the calls of step() the last run() has made
    output,           \* the values the machine has emitted (the source has no sink)
    s_given,          \* compute_solution_2: the tape the caller passed
    s_tape,           \* compute_solution_2: the caller's tape as the search leaves it
    noun,             \* compute_solution_2: the outer loop variable
    verb,             \* compute_solution_2: the inner loop variable
    s_pc,             \* compute_solution_2: "idle", "loop" or "done"
    s_ret,            \* compute_solution_2: what it returned
    trials,           \* compute_solution_2: the trials run so far
    pw_raw,           \* Password.raw, a sequence of digits
    pw_part,          \* the DayPuzzlePart handed to validate
    pw_result,        \* what validate returned
    wire1,            \* day 3: the first Wire, a sequence of WireOffsetPosition
    wire2,            \* day 3: the second Wire
    w_result          \* day 3: what compute_solution_2 returned

\* The variables of the search and of the password validator.
search_vars == <<s_given, s_tape, noun, verb, s_pc, s_ret, trials>>
pw_vars == <<pw_raw, pw_part, pw_result>>
wire_vars == <<wire1, wire2, w_result>>

\* The variables no call on a bare virtual machine touches.
outside_vm == <<search_vars, pw_vars, wire_vars>>

vars == <<memory, program_counter, overflow_checks, tape, op, ret,
          pre_memory, pre_pc, in_run, run_ret, prior, since_load, run_steps, output,
          search_vars, pw_vars, wire_vars>>

\* -------------------------------------------------------------- results
\* anyhow::Result values: Ok(false), Ok(true), the three errors the VM
\* raises, and a panic (the call never returns).
OkFalse == [kind |-> "OkFalse", arg |-> 0]
OkTrue == [kind |-> "OkTrue", arg |-> 0]
ReadOverflow(index) == [kind |-> "ReadOverflow", arg |-> index]
WriteOverflow(index) == [kind |-> "WriteOverflow", arg |-> index]
UnknownOpcode(code) == [kind |-> "UnknownOpcode", arg |-> code]
Panic == [kind |-> "Panic", arg |-> 0]
NoResult == [kind |-> "None", arg |-> 0]
OkUnit == [kind |-> "Ok", arg |-> 0]

IsErr(r) == r.kind \in {"ReadOverflow", "WriteOverflow", "UnknownOpcode"}

\* ---------------------------------------------------------------- Memory
\* Vec::get(index) is Some exactly for index < len.
InBounds(mem, index) == index < Len(mem)

\* Memory::get_scalar_at, for an index in bounds.
get_scalar_at(mem, index) == mem[index + 1]

\* Mutant of set_scalar_at: the write also lands in the cell after the index.
set_scalar_at_spill(mem, index, value) ==
    [i \in 1 .. Len(mem) |-> IF i \in {index + 1, index + 2} THEN value ELSE mem[i]]

\* Memory::set_scalar_at, for an index in bounds: the cell is replaced in place.
set_scalar_at(mem, index, value) == [mem EXCEPT ![index + 1] = value]

\* ----------------------------------------------------------- Instruction
\* Mutant of decode: the three operand cells are read before the opcode is matched.
decode_operands_first(pc, code, mem) ==
    IF ~InBounds(mem, pc + 1) THEN [ins |-> "Err", err |-> ReadOverflow(pc + 1)]
    ELSE IF ~InBounds(mem, pc + 2) THEN [ins |-> "Err", err |-> ReadOverflow(pc + 2)]
    ELSE IF ~InBounds(mem, pc + 3) THEN [ins |-> "Err", err |-> ReadOverflow(pc + 3)]
    ELSE IF code = OPERATION_CODE_HALT THEN [ins |-> "Halt", err |-> NoResult]
    ELSE IF code \notin {OPERATION_CODE_ADD, OPERATION_CODE_MULTIPLY}
    THEN [ins |-> "Err", err |-> UnknownOpcode(code)]
    ELSE [ins |-> IF code = OPERATION_CODE_ADD THEN "Add" ELSE "Multiply",
          err |-> NoResult,
          lhs_at |-> get_scalar_at(mem, pc + 1),
          rhs_at |-> get_scalar_at(mem, pc + 2),
          output_at |-> get_scalar_at(mem, pc + 3)]

\* Mutant of decode: the match has no error arm, every other word is a Multiply.
decode_default_multiply(pc, code, mem) ==
    IF code = OPERATION_CODE_HALT THEN [ins |-> "Halt", err |-> NoResult]
    ELSE IF ~InBounds(mem, pc + 1) THEN [ins |-> "Err", err |-> ReadOverflow(pc + 1)]
    ELSE IF ~InBounds(mem, pc + 2) THEN [ins |-> "Err", err |-> ReadOverflow(pc + 2)]
    ELSE IF ~InBounds(mem, pc + 3) THEN [ins |-> "Err", err |-> ReadOverflow(pc + 3)]
    ELSE [ins |-> IF code = OPERATION_CODE_ADD THEN "Add" ELSE "Multiply",
          err |-> NoResult,
          lhs_at |-> get_scalar_at(mem, pc + 1),
          rhs_at |-> get_scalar_at(mem, pc + 2),
          output_at |-> get_scalar_at(mem, pc + 3)]

\* Instruction::decode: the instruction, or the error of the first failing read.
decode(pc, code, mem) ==
    IF code = OPERATION_CODE_HALT THEN [ins |-> "Halt", err |-> NoResult]
    ELSE IF code \notin {OPERATION_CODE_ADD, OPERATION_CODE_MULTIPLY}
    THEN [ins |-> "Err", err |-> UnknownOpcode(code)]
    ELSE IF ~InBounds(mem, pc + 1) THEN [ins |-> "Err", err |-> ReadOverflow(pc + 1)]
    ELSE IF ~InBounds(mem, pc + 2) THEN [ins |-> "Err", err |-> ReadOverflow(pc + 2)]
    ELSE IF ~InBounds(mem, pc + 3) THEN [ins |-> "Err", err |-> ReadOverflow(pc + 3)]
    ELSE [ins |-> IF code = OPERATION_CODE_ADD THEN "Add" ELSE "Multiply",
          err |-> NoResult,
          lhs_at |-> get_scalar_at(mem, pc + 1),
          rhs_at |-> get_scalar_at(mem, pc + 2),
          output_at |-> get_scalar_at(mem, pc + 3)]

\* `lhs + rhs` / `lhs * rhs` on usize, when the result fits.
Arith(ins, lhs, rhs) == IF ins = "Add" THEN lhs + rhs ELSE lhs * rhs

\* The result of `lhs + rhs` / `lhs * rhs` does not fit a usize (decided
\* without computing it).
Overflows(ins, lhs, rhs) ==
    IF ins = "Add" THEN lhs > ScalarMax - rhs
    ELSE lhs # 0 /\ rhs > ScalarMax \div lhs

\* lhs * rhs modulo ScalarMax + 1, by doubling.
RECURSIVE MulMod(_, _)
MulMod(lhs, rhs) ==
    IF rhs = 0 THEN 0
    ELSE LET half == MulMod(lhs, rhs \div 2)
             twice == (half + half) % (ScalarMax + 1)
         IN  IF rhs % 2 = 1 THEN (twice + lhs) % (ScalarMax + 1) ELSE twice

\* What wrapping arithmetic stores: the result modulo ScalarMax + 1.
Wrapped(ins, lhs, rhs) ==
    IF ins = "Add" THEN (lhs + rhs) % (ScalarMax + 1) ELSE MulMod(lhs, rhs)

\* Mutant of apply: a write past the end extends the memory by the value.
apply_extending(d, mem, checks) ==
    IF d.ins = "Halt" THEN [ret |-> OkTrue, memory |-> mem]
    ELSE IF ~InBounds(mem, d.lhs_at) THEN [ret |-> ReadOverflow(d.lhs_at), memory |-> mem]
    ELSE IF ~InBounds(mem, d.rhs_at) THEN [ret |-> ReadOverflow(d.rhs_at), memory |-> mem]
    ELSE LET lhs == get_scalar_at(mem, d.lhs_at)
             rhs == get_scalar_at(mem, d.rhs_at)
             overflow == Overflows(d.ins, lhs, rhs)
             result == IF overflow THEN Wrapped(d.ins, lhs, rhs) ELSE Arith(d.ins, lhs, rhs)
         IN  IF overflow /\ checks THEN [ret |-> Panic, memory |-> mem]
             ELSE IF ~InBounds(mem, d.output_at)
             THEN [ret |-> OkFalse, memory |-> Append(mem, result)]
             ELSE [ret |-> OkFalse,
                   memory |-> set_scalar_at(mem, d.output_at, result)]

\* Instruction::apply: the result and the memory it leaves.
apply(d, mem, checks) ==
    IF d.ins = "Halt" THEN [ret |-> OkTrue, memory |-> mem]
    ELSE IF ~InBounds(mem, d.lhs_at) THEN [ret |-> ReadOverflow(d.lhs_at), memory |-> mem]
    ELSE IF ~InBounds(mem, d.rhs_at) THEN [ret |-> ReadOverflow(d.rhs_at), memory |-> mem]
    ELSE LET lhs == get_scalar_at(mem, d.lhs_at)
             rhs == get_scalar_at(mem, d.rhs_at)
             overflow == Overflows(d.ins, lhs, rhs)
             result == IF overflow THEN Wrapped(d.ins, lhs, rhs) ELSE Arith(d.ins, lhs, rhs)
         IN  IF overflow /\ checks THEN [ret |-> Panic, memory |-> mem]
             ELSE IF ~InBounds(mem, d.output_at)
             THEN [ret |-> WriteOverflow(d.output_at), memory |-> mem]
             ELSE [ret |-> OkFalse,
                   memory |-> set_scalar_at(mem, d.output_at, result)]

\* -------------------------------------------------------- VirtualMachine
\* num_traits::clamp(input, min, max).
clamp(input, min, max) == IF input < min THEN min ELSE IF input > max THEN max ELSE input

\* Mutant of step: a Halt moves the program counter to the next cell.
step_halt_advances(mem, pc, checks) ==
    IF ~InBounds(mem, pc)
    THEN [ret |-> ReadOverflow(pc), memory |-> mem, program_counter |-> pc]
    ELSE LET d == decode(pc, get_scalar_at(mem, pc), mem)
         IN  IF d.ins = "Err"
             THEN [ret |-> d.err, memory |-> mem, program_counter |-> pc]
             ELSE LET a == apply(d, mem, checks)
                  IN  IF a.ret = OkTrue
                      THEN [ret |-> OkTrue, memory |-> a.memory, program_counter |-> pc + 1]
                      ELSE IF a.ret # OkFalse
                      THEN [ret |-> a.ret, memory |-> a.memory, program_counter |-> pc]
                      ELSE [ret |-> OkFalse, memory |-> a.memory,
                            program_counter |-> clamp(pc + PC_ADVANCE, 0, Len(a.memory) - 1)]

\* Mutant of step: the instruction is decoded from the loaded tape.
step_decode_tape(mem, pc, checks) ==
    IF ~InBounds(mem, pc)
    THEN [ret |-> ReadOverflow(pc), memory |-> mem, program_counter |-> pc]
    ELSE LET d == decode(pc, get_scalar_at(tape, pc), tape)
         IN  IF d.ins = "Err"
             THEN [ret |-> d.err, memory |-> mem, program_counter |-> pc]
             ELSE LET a == apply(d, mem, checks)
                  IN  IF a.ret # OkFalse
                      THEN [ret |-> a.ret, memory |-> a.memory, program_counter |-> pc]
                      ELSE [ret |-> OkFalse, memory |-> a.memory,
                            program_counter |-> clamp(pc + PC_ADVANCE, 0, Len(a.memory) - 1)]

\* Mutant of step: the program counter is set back to 0 when it would pass
\* the last cell.
step_wrap_to_start(mem, pc, checks) ==
    IF ~InBounds(mem, pc)
    THEN [ret |-> ReadOverflow(pc), memory |-> mem, program_counter |-> pc]
    ELSE LET d == decode(pc, get_scalar_at(mem, pc), mem)
         IN  IF d.ins = "Err"
             THEN [ret |-> d.err, memory |-> mem, program_counter |-> pc]
             ELSE LET a == apply(d, mem, checks)
                  IN  IF a.ret # OkFalse
                      THEN [ret |-> a.ret, memory |-> a.memory, program_counter |-> pc]
                      ELSE [ret |-> OkFalse, memory |-> a.memory,
                            program_counter |->
                                IF pc + PC_ADVANCE > Len(a.memory) - 1 THEN 0
                                ELSE pc + PC_ADVANCE]

\* VirtualMachine::step: the result, the memory and the program counter it leaves.
step(mem, pc, checks) ==
    IF ~InBounds(mem, pc)
    THEN [ret |-> ReadOverflow(pc), memory |-> mem, program_counter |-> pc]
    ELSE LET d == decode(pc, get_scalar_at(mem, pc), mem)
         IN  IF d.ins = "Err"
             THEN [ret |-> d.err, memory |-> mem, program_counter |-> pc]
             ELSE LET a == apply(d, mem, checks)
                  IN  IF a.ret # OkFalse
                      THEN [ret |-> a.ret, memory |-> a.memory, program_counter |-> pc]
                      ELSE [ret |-> OkFalse, memory |-> a.memory,
                            program_counter |-> clamp(pc + PC_ADVANCE, 0, Len(a.memory) - 1)]

\* VirtualMachine::run as a function: the loop of step() until it halts or fails.
RECURSIVE run(_, _, _)
run(mem, pc, checks) ==
    LET s == step(mem, pc, checks)
    IN  IF s.ret = OkFalse THEN run(s.memory, s.program_counter, checks)
        ELSE [ret |-> IF s.ret = OkTrue THEN OkUnit ELSE s.ret,
              memory |-> s.memory, program_counter |-> s.program_counter]

\* What the VM had last done, as seen by the next load.
PriorOf ==
    IF ret.kind = "OkFalse" THEN "mid"
    ELSE IF ret.kind = "OkTrue" THEN "halted"
    ELSE IF IsErr(ret) THEN "failed"
    ELSE "loaded"

\* The process is alive (no panic has aborted it).
Alive == ret.kind # "Panic"

\* No search is running.
SearchIdle ==
    /\ s_given = <<>> /\ s_tape = <<>>
    /\ noun = 0 /\ verb = 0
    /\ s_pc = "idle"
    /\ s_ret = NoResult
    /\ trials = 0

\* No password is being validated.
PwIdle ==
    /\ pw_raw = <<>>
    /\ pw_part = "One"
    /\ pw_result = NoResult

\* No wires are being solved.
WireIdle ==
    /\ wire1 = <<>>
    /\ wire2 = <<>>
    /\ w_result = NoResult

\* VirtualMachine::from_tape
Init ==
    /\ tape \in Tapes
    /\ overflow_checks \in BOOLEAN
    /\ memory = tape
    /\ program_counter = 0
    /\ op = "from_tape"
    /\ ret = NoResult
    /\ pre_memory = tape
    /\ pre_pc = 0
    /\ in_run = FALSE
    /\ run_ret = NoResult
    /\ prior = "new"
    /\ since_load = "none"
    /\ run_steps = 0
    /\ output = <<>>
    /\ SearchIdle
    /\ PwIdle
    /\ WireIdle

\* Mutant of Reset: the program counter is left where it was.
Reset_keep_pc(t) ==
    /\ Alive /\ ~in_run
    /\ memory' = t
    /\ program_counter' = program_counter
    /\ tape' = t
    /\ op' = "reset"
    /\ ret' = NoResult
    /\ pre_memory' = t
    /\ pre_pc' = 0
    /\ run_ret' = NoResult
    /\ prior' = PriorOf
    /\ since_load' = "none"
    /\ UNCHANGED <<overflow_checks, in_run, run_steps, output, outside_vm>>

\* Mutant of Reset: the tape is copied over the old memory, whose cells past
\* the end of the tape stay.
Reset_copy_over(t) ==
    /\ Alive /\ ~in_run
    /\ memory' = t \o SubSeq(memory, Len(t) + 1, Len(memory))
    /\ program_counter' = 0
    /\ tape' = t
    /\ op' = "reset"
    /\ ret' = NoResult
    /\ pre_memory' = t
    /\ pre_pc' = 0
    /\ run_ret' = NoResult
    /\ prior' = PriorOf
    /\ since_load' = "none"
    /\ UNCHANGED <<overflow_checks, in_run, run_steps, output, outside_vm>>

\* VirtualMachine::reset
Reset(t) ==
    /\ Alive /\ ~in_run
    /\ memory' = t
    /\ program_counter' = 0
    /\ tape' = t
    /\ op' = "reset"
    /\ ret' = NoResult
    /\ pre_memory' = t
    /\ pre_pc' = 0
    /\ run_ret' = NoResult
    /\ prior' = PriorOf
    /\ since_load' = "none"
    /\ UNCHANGED <<overflow_checks, in_run, run_steps, output, outside_vm>>

\* The effect of one call of step() on the machine.
DoStep ==
    LET s == step(memory, program_counter, overflow_checks)
    IN  /\ memory' = s.memory
        /\ program_counter' = s.program_counter
        /\ ret' = s.ret
        /\ pre_memory' = memory
        /\ pre_pc' = program_counter

\* VirtualMachine::step called by the user of the VM.
Step ==
    /\ Alive /\ ~in_run
    /\ DoStep
    /\ op' = "step"
    /\ since_load' = "other"
    /\ UNCHANGED <<overflow_checks, tape, in_run, run_ret, prior, run_steps, output,
                   outside_vm>>

\* VirtualMachine::run is entered.
RunCall ==
    /\ Alive /\ ~in_run
    /\ in_run' = TRUE
    /\ op' = "run"
    /\ run_ret' = NoResult
    /\ since_load' = IF since_load = "none" THEN "run" ELSE "other"
    /\ run_steps' = 0
    /\ UNCHANGED <<memory, program_counter, overflow_checks, tape, ret,
                   pre_memory, pre_pc, prior, output, outside_vm>>

\* Mutant of RunStep: the loop is left when step() returns false.
RunStep_break_on_false ==
    /\ Alive /\ in_run
    /\ DoStep
    /\ in_run' = (ret'.kind \in {"OkTrue", "Panic"})
    /\ run_ret' = IF ret'.kind = "OkFalse" THEN OkUnit
                  ELSE IF IsErr(ret') THEN ret'
                  ELSE NoResult
    /\ run_steps' = run_steps + 1
    /\ UNCHANGED <<overflow_checks, tape, op, prior, since_load, output, outside_vm>>

\* Mutant of RunStep: the error of a step is dropped and the loop goes on.
RunStep_ignore_error ==
    /\ Alive /\ in_run
    /\ DoStep
    /\ in_run' = (ret'.kind # "OkTrue")
    /\ run_ret' = IF ret'.kind = "OkTrue" THEN OkUnit ELSE NoResult
    /\ run_steps' = run_steps + 1
    /\ UNCHANGED <<overflow_checks, tape, op, prior, since_load, output, outside_vm>>

\* One iteration of the loop of run(): `if self.step()? { break }`.
RunStep ==
    /\ Alive /\ in_run
    /\ DoStep
    /\ in_run' = (ret'.kind \in {"OkFalse", "Panic"})
    /\ run_ret' = IF ret'.kind = "OkTrue" THEN OkUnit
                  ELSE IF IsErr(ret') THEN ret'
                  ELSE NoResult
    /\ run_steps' = run_steps + 1
    /\ UNCHANGED <<overflow_checks, tape, op, prior, since_load, output, outside_vm>>

Next ==
    \/ \E t \in ResetTapes : Reset(t)
    \/ Step
    \/ RunCall
    \/ RunStep

Spec == Init /\ [][Next]_vars

\* ============================================= day-2 compute_solution_2
\* The value the search looks for in cell 0.
COMPUTE_SOLUTION_2_TARGET == 19690720

\* `for noun in 0..100`, `for verb in 0..100`.
SEARCH_RANGE == 100

\* Ok(100 * noun + verb) and the error after the loops.
OkValue(v) == [kind |-> "OkValue", arg |-> v]
NoSolution == [kind |-> "NoSolution", arg |-> 0]

\* A tape of n cells: t followed by zeroes.
Pad(t, n) == t \o [i \in 1 .. n - Len(t) |-> 0]

\* The tapes handed to the search: programs of SEARCH_RANGE cells whose
\* first match lies at (6, 7), at (1, 12) or nowhere, a program that halts
\* at once, short programs that match or fail on the first row, a program
\* that fails at (0, 6) and would match at (1, 5), a program that overflows,
\* and tapes of fewer than three cells.
SearchTapes ==
    { Pad(<<1, 0, 0, 0, 99, 0, 19690000, 720>>, SEARCH_RANGE),
      Pad(<<2, 0, 0, 0, 99, 0, 0, 0, 0, 0, 0, 0, 19690720>>, SEARCH_RANGE),
      Pad(<<1, 0, 0, 0, 99>>, SEARCH_RANGE),
      <<99, 0, 0>>,
      <<1, 0, 0, 0, 99, 19690719>>,
      <<1, 0, 0, 0, 99>>,
      <<2, 0, 0, 0, 99, COMPUTE_SOLUTION_2_TARGET>>,
      <<2, 0, 0, 0, 99, ScalarMax>>,
      <<>>, <<99>>, <<99, 0>> }

\* `vm_tape`: a copy of the tape with noun in cell 1 and verb in cell 2.
Substitute(t, n, v) == [t EXCEPT ![2] = n, ![3] = v]

\* Mutant of NextPair: the verb is the outer loop variable.
NextPair_verb_major(n, v) ==
    IF n + 1 < SEARCH_RANGE THEN [more |-> TRUE, noun |-> n + 1, verb |-> v]
    ELSE IF v + 1 < SEARCH_RANGE THEN [more |-> TRUE, noun |-> 0, verb |-> v + 1]
    ELSE [more |-> FALSE, noun |-> n, verb |-> v]

\* Mutant of NextPair: the ranges end one value early.
NextPair_short_range(n, v) ==
    IF v + 1 < SEARCH_RANGE - 1 THEN [more |-> TRUE, noun |-> n, verb |-> v + 1]
    ELSE IF n + 1 < SEARCH_RANGE - 1 THEN [more |-> TRUE, noun |-> n + 1, verb |-> 0]
    ELSE [more |-> FALSE, noun |-> n, verb |-> v]

\* The pair the two nested `for` loops try after (n, v), if any.
NextPair(n, v) ==
    IF v + 1 < SEARCH_RANGE THEN [more |-> TRUE, noun |-> n, verb |-> v + 1]
    ELSE IF n + 1 < SEARCH_RANGE THEN [more |-> TRUE, noun |-> n + 1, verb |-> 0]
    ELSE [more |-> FALSE, noun |-> n, verb |-> v]

\* compute_solution_2 is called: the VM is built from the empty tape.
SearchInit ==
    /\ s_given \in SearchTapes
    /\ s_tape = s_given
    /\ overflow_checks \in BOOLEAN
    /\ noun = 0 /\ verb = 0
    /\ s_pc = "loop"
    /\ s_ret = NoResult
    /\ trials = 0
    /\ tape = <<>>
    /\ memory = <<>>
    /\ program_counter = 0
    /\ op = "from_tape"
    /\ ret = NoResult
    /\ pre_memory = <<>>
    /\ pre_pc = 0
    /\ in_run = FALSE
    /\ run_ret = NoResult
    /\ prior = "new"
    /\ since_load = "none"
    /\ run_steps = 0
    /\ output = <<>>
    /\ PwIdle
    /\ WireIdle

\* The body of the loops for the pair (noun, verb) fails at an unwrap():
\* the tape has no cell 1 or no cell 2.
TrialUnwrapPanics ==
    /\ s_pc = "loop"
    /\ Len(s_tape) < 3
    /\ s_ret' = Panic
    /\ s_pc' = "done"
    /\ UNCHANGED <<memory, program_counter, overflow_checks, tape, op, ret,
                   pre_memory, pre_pc, in_run, run_ret, prior, since_load, run_steps,
                   output,
                   s_given, s_tape, noun, verb, trials, pw_vars, wire_vars>>

\* Mutant of Trial: a failed run is skipped and the next pair is tried;
\* the VM is reset to the substituted copy of the tape and run; the search returns on a failure and
\* on a match, and after the last pair.
Trial_skip_failure ==
    /\ s_pc = "loop"
    /\ Len(s_tape) >= 3
    /\ LET vm_tape == Substitute(s_tape, noun, verb)
           r == run(vm_tape, 0, overflow_checks)
           next == NextPair(noun, verb)
           stop == r.ret = OkUnit
                   /\ get_scalar_at(r.memory, 0) = COMPUTE_SOLUTION_2_TARGET
       IN  /\ tape' = vm_tape
           /\ pre_memory' = vm_tape
           /\ pre_pc' = 0
           /\ memory' = r.memory
           /\ program_counter' = r.program_counter
           /\ run_ret' = IF r.ret = Panic THEN NoResult ELSE r.ret
           /\ ret' = IF r.ret = Panic THEN Panic ELSE NoResult
           /\ op' = "run"
           /\ prior' = IF trials = 0 THEN "loaded" ELSE "halted"
           /\ since_load' = "run"
           /\ trials' = trials + 1
           /\ s_ret' = IF stop THEN OkValue(100 * noun + verb)
                       ELSE IF next.more THEN NoResult
                       ELSE NoSolution
           /\ s_pc' = IF stop \/ ~next.more THEN "done" ELSE "loop"
           /\ noun' = IF stop THEN noun ELSE next.noun
           /\ verb' = IF stop THEN verb ELSE next.verb
    /\ UNCHANGED <<overflow_checks, in_run, run_steps, output, s_given, s_tape,
                   pw_vars, wire_vars>>

\* The body of the loops for the pair (noun, verb): the VM is reset to the
\* substituted copy of the tape and run; the search returns on a failure and
\* on a match, and after the last pair.
Trial ==
    /\ s_pc = "loop"
    /\ Len(s_tape) >= 3
    /\ LET vm_tape == Substitute(s_tape, noun, verb)
           r == run(vm_tape, 0, overflow_checks)
           next == NextPair(noun, verb)
           stop == r.ret # OkUnit
                   \/ get_scalar_at(r.memory, 0) = COMPUTE_SOLUTION_2_TARGET
       IN  /\ tape' = vm_tape
           /\ pre_memory' = vm_tape
           /\ pre_pc' = 0
           /\ memory' = r.memory
           /\ program_counter' = r.program_counter
           /\ run_ret' = IF r.ret = Panic THEN NoResult ELSE r.ret
           /\ ret' = IF r.ret = Panic THEN Panic ELSE NoResult
           /\ op' = "run"
           /\ prior' = IF trials = 0 THEN "loaded" ELSE "halted"
           /\ since_load' = "run"
           /\ trials' = trials + 1
           /\ s_ret' = IF r.ret # OkUnit THEN r.ret
                       ELSE IF stop THEN OkValue(100 * noun + verb)
                       ELSE IF next.more THEN NoResult
                       ELSE NoSolution
           /\ s_pc' = IF stop \/ ~next.more THEN "done" ELSE "loop"
           /\ noun' = IF stop THEN noun ELSE next.noun
           /\ verb' = IF stop THEN verb ELSE next.verb
    /\ UNCHANGED <<overflow_checks, in_run, run_steps, output, s_given, s_tape,
                   pw_vars, wire_vars>>

SearchNext ==
    \/ TrialUnwrapPanics
    \/ Trial

SearchSpec == SearchInit /\ [][SearchNext]_vars

\* ==================================================== day-5 VirtualMachine
\* src/src/day-5/main.rs.  The struct, reset, run and the Add / Multiply /
\* Halt arms of decode are those of day 2; decode first splits the opcode
\* word into its decimal digits, apply has a catch-all arm before the Halt
\* arm, and step does not clamp the program counter.

\* `code.to_string().chars().collect()`: the decimal digits of code, most
\* significant first.
RECURSIVE ToChars(_)
ToChars(code) ==
    IF code < 10 THEN <<code>> ELSE Append(ToChars(code \div 10), code % 10)

\* `opcode_string.parse()` of the two characters c1 c0.
ParseOpcode(c1, c0) == 10 * c1 + c0

\* day-5 Instruction::decode.  `code_chars[code_chars.len() - 2]` panics for
\* a word of one digit (the subtraction overflows, or the wrapped index is
\* out of range); the opcode parsed from the last two digits is not used:
\* the match is on the whole word, as in day 2.
day5_decode(pc, code, mem) ==
    LET code_chars == ToChars(code)
    IN  IF Len(code_chars) < 2 THEN [ins |-> "Panic", err |-> Panic]
        ELSE LET opcode == ParseOpcode(code_chars[Len(code_chars) - 1],
                                       code_chars[Len(code_chars)])
             IN  decode(pc, code, mem)

\* day-5 Instruction::apply.  The arms of Add and Multiply are those of day
\* 2; the arm `_ => false` stands before the arm of Halt, so it takes Input,
\* Output and Halt.
day5_apply(d, mem, checks) ==
    IF d.ins \in {"Add", "Multiply"} THEN apply(d, mem, checks)
    ELSE [ret |-> OkFalse, memory |-> mem]

\* day-5 VirtualMachine::step.
day5_step(mem, pc, checks) ==
    IF ~InBounds(mem, pc)
    THEN [ret |-> ReadOverflow(pc), memory |-> mem, program_counter |-> pc]
    ELSE LET d == day5_decode(pc, get_scalar_at(mem, pc), mem)
         IN  IF d.ins \in {"Err", "Panic"}
             THEN [ret |-> d.err, memory |-> mem, program_counter |-> pc]
             ELSE LET a == day5_apply(d, mem, checks)
                  IN  IF a.ret # OkFalse
                      THEN [ret |-> a.ret, memory |-> a.memory, program_counter |-> pc]
                      ELSE [ret |-> OkFalse, memory |-> a.memory,
                            program_counter |-> pc + PC_ADVANCE]

\* Cell values of the day-5 tapes: one-digit words (1, 2, 4), which are also
\* addresses, Halt, and words with parameter-mode digits.
Day5Values == {1, 2, 4, 99, 101, 201, 1001, 1102, 1099}

\* Programs whose halts lie four cells apart.
Day5ProgramTapes ==
    { <<99>>, <<99, 0, 0, 0, 99>>, <<99, 1, 1, 1, 1001, 1, 1, 1>>, <<4, 2, 99>> }

Day5Tapes == SeqsUpTo(Day5Values, MaxLen) \cup TestTapes \cup Day5ProgramTapes

Day5ResetTapes == TestTapes \cup Day5ProgramTapes

\* day-5 VirtualMachine::from_tape
Day5Init ==
    /\ tape \in Day5Tapes
    /\ overflow_checks \in BOOLEAN
    /\ memory = tape
    /\ program_counter = 0
    /\ op = "from_tape"
    /\ ret = NoResult
    /\ pre_memory = tape
    /\ pre_pc = 0
    /\ in_run = FALSE
    /\ run_ret = NoResult
    /\ prior = "new"
    /\ since_load = "none"
    /\ run_steps = 0
    /\ output = <<>>
    /\ SearchIdle
    /\ PwIdle
    /\ WireIdle

\* The effect of one call of the day-5 step() on the machine.
Day5DoStep ==
    LET s == day5_step(memory, program_counter, overflow_checks)
    IN  /\ memory' = s.memory
        /\ program_counter' = s.program_counter
        /\ ret' = s.ret
        /\ pre_memory' = memory
        /\ pre_pc' = program_counter

\* day-5 VirtualMachine::step called by the user of the VM.
Day5Step ==
    /\ Alive /\ ~in_run
    /\ Day5DoStep
    /\ op' = "step"
    /\ since_load' = "other"
    /\ UNCHANGED <<overflow_checks, tape, in_run, run_ret, prior, run_steps, output,
                   outside_vm>>

\* One iteration of the loop of the day-5 run().
Day5RunStep ==
    /\ Alive /\ in_run
    /\ Day5DoStep
    /\ in_run' = (ret'.kind \in {"OkFalse", "Panic"})
    /\ run_ret' = IF ret'.kind = "OkTrue" THEN OkUnit
                  ELSE IF IsErr(ret') THEN ret'
                  ELSE NoResult
    /\ run_steps' = run_steps + 1
    /\ UNCHANGED <<overflow_checks, tape, op, prior, since_load, output, outside_vm>>

\* reset() and the entry of run() are those of day 2.
Day5Next ==
    \/ \E t \in Day5ResetTapes : Reset(t)
    \/ Day5Step
    \/ RunCall
    \/ Day5RunStep

Day5Spec == Day5Init /\ [][Day5Next]_vars

\* ================================================ day-4 Password::validate
\* src/src/day-4/main.rs.  Password.raw is modelled as its sequence of
\* decimal digits (parse_digit panics on any other character).

\* The largest digit of the passwords enumerated exhaustively.
PwMaxDigit == 5

PASSWORD_EXPECTED_LENGTH == 6

\* PasswordValidationResult
Valid == [kind |-> "Valid", arg |-> 0]
IncorrectLength(n) == [kind |-> "IncorrectLength", arg |-> n]
NoTwoAdjacentDigits == [kind |-> "NoTwoAdjacentDigits", arg |-> 0]
SuccessiveDigitsDecrease == [kind |-> "SuccessiveDigitsDecrease", arg |-> 0]
TooManySuccessiveDigits == [kind |-> "TooManySuccessiveDigits", arg |-> 0]

\* Option::None of parse_digit; it differs from every Some(digit).
NoDigit == -1

\* parse_digit(raw_chars.get(index)), index 0-based.
parse_digit(raw, index) == IF index < Len(raw) THEN raw[index + 1] ELSE NoDigit

\* The loop `'inner`, entered with the iterator about to yield index j: it
\* sets the flag while the yielded digit is d0 and is followed by the same
\* digit; the item on which it breaks is consumed.  `next` is the index the
\* iterator yields after the loop.
RECURSIVE inner_loop(_, _, _, _)
inner_loop(raw, j, d0, more) ==
    IF j >= Len(raw) THEN [next |-> j, more |-> more]
    ELSE LET d == parse_digit(raw, j)
         IN  IF d # d0 \/ parse_digit(raw, j + 1) # d
             THEN [next |-> j + 1, more |-> more]
             ELSE inner_loop(raw, j + 1, d0, TRUE)

\* The loop `while let Some((i, c0)) = iter.next()`, with the iterator about
\* to yield index i and the two flags as they stand.
RECURSIVE outer_loop(_, _, _, _)
outer_loop(raw, i, pair, more) ==
    IF i >= Len(raw)
    THEN [decrease |-> FALSE, at_least_one_pair_digit |-> pair,
          more_than_two_adjacent_digits |-> more]
    ELSE LET d0 == parse_digit(raw, i)
             d1 == parse_digit(raw, i + 1)
             d2 == parse_digit(raw, i + 2)
         IN  IF d1 # NoDigit /\ d1 < d0
             THEN [decrease |-> TRUE, at_least_one_pair_digit |-> pair,
                   more_than_two_adjacent_digits |-> more]
             ELSE IF d1 # d0 THEN outer_loop(raw, i + 1, pair, more)
             ELSE IF d2 # d0 THEN outer_loop(raw, i + 1, TRUE, more)
             ELSE LET in == inner_loop(raw, i + 1, d0, more)
                  IN  outer_loop(raw, in.next, pair, in.more)

\* Mutant of verdict: the part is not looked at.
verdict_any_part(part, pair, more) ==
    IF ~pair /\ ~more THEN NoTwoAdjacentDigits ELSE Valid

\* The result after the loops, from the part and the two flags.
verdict(part, pair, more) ==
    IF part = "Two" /\ ~pair
    THEN IF more THEN TooManySuccessiveDigits ELSE NoTwoAdjacentDigits
    ELSE IF ~pair /\ ~more THEN NoTwoAdjacentDigits
    ELSE Valid

\* Password::validate
validate(raw, part) ==
    IF Len(raw) # PASSWORD_EXPECTED_LENGTH THEN IncorrectLength(Len(raw))
    ELSE LET scan == outer_loop(raw, 0, FALSE, FALSE)
         IN  IF scan.decrease THEN SuccessiveDigitsDecrease
             ELSE verdict(part, scan.at_least_one_pair_digit,
                          scan.more_than_two_adjacent_digits)

\* The passwords of the unit tests.
TestPasswords ==
    { <<1, 1, 1, 1, 1, 1>>, <<1, 2, 3, 4, 5>>, <<2, 2, 3, 4, 5, 0>>,
      <<1, 2, 3, 7, 8, 9>>, <<1, 1, 2, 2, 3, 3>>, <<1, 2, 3, 4, 4, 4>>,
      <<1, 1, 1, 2, 3, 4>>, <<1, 1, 1, 1, 2, 2>> }

\* Every string of PASSWORD_EXPECTED_LENGTH digits up to PwMaxDigit, and
\* the test passwords.
Passwords ==
    {p \in SeqsUpTo(0 .. PwMaxDigit, PASSWORD_EXPECTED_LENGTH) :
         Len(p) = PASSWORD_EXPECTED_LENGTH}
    \cup TestPasswords

\* No virtual machine is in use.
VmIdle ==
    /\ tape = <<>>
    /\ overflow_checks = TRUE
    /\ memory = <<>>
    /\ program_counter = 0
    /\ op = "from_tape"
    /\ ret = NoResult
    /\ pre_memory = <<>>
    /\ pre_pc = 0
    /\ in_run = FALSE
    /\ run_ret = NoResult
    /\ prior = "new"
    /\ since_load = "none"
    /\ run_steps = 0
    /\ output = <<>>

\* A Password is built and handed to validate with a part.
PwInit ==
    /\ pw_raw \in Passwords
    /\ pw_part \in {"One", "Two"}
    /\ pw_result = NoResult
    /\ VmIdle
    /\ SearchIdle
    /\ WireIdle

\* Password::validate is called.
Validate ==
    /\ pw_result = NoResult
    /\ pw_result' = validate(pw_raw, pw_part)
    /\ UNCHANGED <<memory, program_counter, overflow_checks, tape, op, ret,
                   pre_memory, pre_pc, in_run, run_ret, prior, since_load, run_steps,
                   output,
                   search_vars, pw_raw, pw_part, wire_vars>>

PwNext == Validate

PwSpec == PwInit /\ [][PwNext]_vars

\* ==================================================== day-3 wire puzzle
\* src/src/day-3/main.rs.  A Wire is the sequence of its
\* WireOffsetPosition records; a WirePath (HashMap) is a function from the
\* visited positions to the step count stored for each.

\* The largest number of segments and the largest segment length of the
\* wires enumerated exhaustively.
WireMaxSegments == 2
WireMaxLength == 3

WireDirection == {"Right", "Up", "Left", "Down"}

WireOffsetPosition == [direction : WireDirection, length : 1 .. WireMaxLength]

\* WireOffsetPosition::as_unit_vector
as_unit_vector(d) ==
    IF d.direction = "Right" THEN [x |-> 1, y |-> 0]
    ELSE IF d.direction = "Up" THEN [x |-> 0, y |-> 1]
    ELSE IF d.direction = "Left" THEN [x |-> -1, y |-> 0]
    ELSE [x |-> 0, y |-> -1]

\* impl Add for WireMapVector2
vec_add(lhs, rhs) == [x |-> lhs.x + rhs.x, y |-> lhs.y + rhs.y]

\* HashMap::insert: the value stored for an existing key is replaced.
path_insert(path, k, v) ==
    [p \in DOMAIN path \cup {k} |-> IF p = k THEN v ELSE path[p]]

\* current + direction_unit_vector, k times over.
advance(current, unit, k) == [x |-> current.x + k * unit.x, y |-> current.y + k * unit.y]

\* The inner loop `for _ in 0..direction.length` of compute_path, from
\* position `current` after `steps` steps: the k-th pass inserts the k-th
\* position of the segment with steps + k (the positions of one segment are
\* distinct, so each is inserted once).
walk_segment(d, current, steps, path) ==
    LET unit == as_unit_vector(d)
        passes == 1 .. d.length
        reached == {advance(current, unit, k) : k \in passes}
    IN  [p \in DOMAIN path \cup reached |->
            IF p \in reached
            THEN steps + (CHOOSE k \in passes : advance(current, unit, k) = p)
            ELSE path[p]]

\* The outer loop `for direction in &self.directions` of compute_path, from
\* segment i of the wire.
RECURSIVE walk(_, _, _, _, _)
walk(directions, i, current, steps, path) ==
    IF i > Len(directions) THEN path
    ELSE LET d == directions[i]
             length == IF d.length > 0 THEN d.length ELSE 0
         IN  walk(directions, i + 1, advance(current, as_unit_vector(d), length),
                  steps + length, walk_segment(d, current, steps, path))

\* Wire::compute_path
compute_path(directions, origin) ==
    walk(directions, 1, origin, 0, path_insert(<<>>, origin, 0))

ORIGIN == [x |-> 0, y |-> 0]

MinOf(S) == CHOOSE m \in S : \A n \in S : m <= n

\* intersections_steps[1] after the sort, for the sums pushed once per
\* position of `keys`: the second smallest, counted with repetitions.
sorted_at_1(keys, sum) ==
    LET first == CHOOSE p \in keys : \A q \in keys : sum[p] <= sum[q]
    IN  MinOf({sum[q] : q \in keys \ {first}})

NoIntersections == [kind |-> "NoIntersections", arg |-> 0]

\* day-3 compute_solution_2: indexing [1] panics on a vector of one element.
wire_solution_2(w1, w2) ==
    LET path1 == compute_path(w1, ORIGIN)
        path2 == compute_path(w2, ORIGIN)
        keys == DOMAIN path1 \cap DOMAIN path2
        sum == [p \in keys |-> path1[p] + path2[p]]
    IN  IF keys = {} THEN NoIntersections
        ELSE IF Cardinality(keys) < 2 THEN Panic
        ELSE OkValue(sorted_at_1(keys, sum))

Seg(d, n) == [direction |-> d, length |-> n]

\* The wires of test_compute_day_3_solution_2.
TestWire1 ==
    << Seg("Right", 75), Seg("Down", 30), Seg("Right", 83), Seg("Up", 83),
       Seg("Left", 12), Seg("Down", 49), Seg("Right", 71), Seg("Up", 7),
       Seg("Left", 72) >>
TestWire2 ==
    << Seg("Up", 62), Seg("Right", 66), Seg("Up", 55), Seg("Right", 34),
       Seg("Down", 71), Seg("Right", 55), Seg("Down", 58), Seg("Right", 83) >>

\* Every wire of 1 .. WireMaxSegments segments.
Wires == SeqsUpTo(WireOffsetPosition, WireMaxSegments) \ {<<>>}

WirePairs == (Wires \X Wires) \cup {<<TestWire1, TestWire2>>}

\* Two wires are parsed.
WireInit ==
    /\ \E pair \in WirePairs : wire1 = pair[1] /\ wire2 = pair[2]
    /\ w_result = NoResult
    /\ VmIdle
    /\ SearchIdle
    /\ PwIdle

\* compute_solution_2(wire1, wire2) is called.
WireSolve ==
    /\ w_result = NoResult
    /\ w_result' = wire_solution_2(wire1, wire2)
    /\ UNCHANGED <<memory, program_counter, overflow_checks, tape, op, ret,
                   pre_memory, pre_pc, in_run, run_ret, prior, since_load, run_steps,
                   output,
                   search_vars, pw_vars, wire1, wire2>>

WireNext == WireSolve

WireSpec == WireInit /\ [][WireNext]_vars

\* ================================================================ claims
\* The last call into the machine's cycle was a step(): pre_memory and
\* pre_pc hold the state it started from, ret what it returned.
Stepped == ret.kind # "None"

\* The word at the program counter before the last step, when it could be fetched.
Fetched == Stepped /\ InBounds(pre_memory, pre_pc)
PreCode == get_scalar_at(pre_memory, pre_pc)

\* The last step fetched an Add or Multiply word.
PreIsArith == Fetched /\ PreCode \in {OPERATION_CODE_ADD, OPERATION_CODE_MULTIPLY}

\* The three operand cells of the instruction lie inside the tape.
PreOperandsFetched == PreIsArith /\ InBounds(pre_memory, pre_pc + 3)
PreA == get_scalar_at(pre_memory, pre_pc + 1)
PreB == get_scalar_at(pre_memory, pre_pc + 2)
PreDst == get_scalar_at(pre_memory, pre_pc + 3)

\* The instruction of the last step as decode names it.
PreIns == IF PreCode = OPERATION_CODE_ADD THEN "Add" ELSE "Multiply"

\* The mathematical result of the instruction fits a Scalar, for operands in
\* bounds.
PreFits ==
    ~Overflows(PreIns, get_scalar_at(pre_memory, PreA), get_scalar_at(pre_memory, PreB))

\* The mathematical result of the instruction, when it fits.
PreMathResult ==
    Arith(PreIns, get_scalar_at(pre_memory, PreA), get_scalar_at(pre_memory, PreB))

\* a, b and dst all address cells of the tape.
PreAllInBounds ==
    /\ PreOperandsFetched
    /\ InBounds(pre_memory, PreA)
    /\ InBounds(pre_memory, PreB)
    /\ InBounds(pre_memory, PreDst)

\* C1: a step on an Add (Multiply) word whose a, b and dst are all in
\* bounds returns Ok(false) and leaves mem[dst] equal to the pre-step
\* mem[a] + mem[b] (mem[a] * mem[b]), also when dst aliases a, b or a cell
\* of the instruction.  A cell holds a Scalar, so it equals the mathematical
\* result only when that fits.  Stated as the claim states it; the code
\* violates it when the result exceeds the Scalar width.
C1_ArithStoresResult ==
    PreAllInBounds =>
        /\ ret = OkFalse
        /\ Len(memory) = Len(pre_memory)
        /\ PreFits
        /\ get_scalar_at(memory, PreDst) = PreMathResult

\* C2: a successful Add or Multiply step writes the destination cell only:
\* the memory keeps its length and every cell other than dst keeps its
\* pre-step value.
C2_ArithFrame ==
    (Stepped /\ ret = OkFalse) =>
        /\ PreOperandsFetched
        /\ InBounds(pre_memory, PreDst)
        /\ Len(memory) = Len(pre_memory)
        /\ \A i \in 0 .. Len(pre_memory) - 1 :
               i # PreDst => get_scalar_at(memory, i) = get_scalar_at(pre_memory, i)

\* C2 witness: a successful step changed the value of its destination cell,
\* on a tape with other cells to preserve.
C2_Witness ==
    /\ Stepped /\ ret = OkFalse
    /\ Len(memory) > 4
    /\ memory # pre_memory

\* C3: after every step that returns Ok(false) the program counter is its
\* pre-step value plus exactly 4.  Stated as the claim states it; the code
\* clamps the program counter to len - 1.
C3_PcAdvancesByFour ==
    (Stepped /\ ret = OkFalse) => program_counter = pre_pc + 4

\* C4: a step at a cell holding 99 returns Ok(true), whatever follows the
\* cell (also nothing: pc is the last cell), and leaves memory and program
\* counter unchanged.
C4_HaltStep ==
    (Fetched /\ PreCode = OPERATION_CODE_HALT) =>
        /\ ret = OkTrue
        /\ memory = pre_memory
        /\ program_counter = pre_pc

\* C4 witness: a step halted on the last cell of the tape, reached after an
\* earlier instruction.
C4_Witness ==
    /\ Fetched /\ PreCode = OPERATION_CODE_HALT
    /\ ret = OkTrue
    /\ pre_pc = Len(pre_memory) - 1
    /\ pre_pc > 0

\* The final memories the unit tests of run() assert.
RunExpected(t) ==
    IF t = <<1, 0, 0, 0, 99>> THEN <<2, 0, 0, 0, 99>>
    ELSE IF t = <<2, 3, 0, 3, 99>> THEN <<2, 3, 0, 6, 99>>
    ELSE IF t = <<2, 4, 4, 5, 99, 0>> THEN <<2, 4, 4, 5, 99, 9801>>
    ELSE IF t = <<1, 1, 1, 4, 99, 5, 6, 0, 99>> THEN <<30, 1, 1, 4, 2, 5, 6, 0, 99>>
    ELSE <<>>

\* C5: run() returns Ok only after a step executed Halt: on return the last
\* step returned Ok(true) and changed nothing, the cell at the program
\* counter holds 99, the loop is left, and when run() was the first call
\* after the load the memory is the one that applying the instructions at
\* the successive program counters from 0 yields (the memories the unit
\* tests expect for their tapes).
C5_RunReturnsOkAfterHalt ==
    (op = "run" /\ run_ret = OkUnit) =>
        /\ ~in_run
        /\ ret = OkTrue
        /\ memory = pre_memory /\ program_counter = pre_pc
        /\ InBounds(memory, program_counter)
        /\ get_scalar_at(memory, program_counter) = OPERATION_CODE_HALT
        /\ since_load = "run" =>
               /\ memory = run(tape, 0, overflow_checks).memory
               /\ RunExpected(tape) # <<>> => memory = RunExpected(tape)

\* C5 witness: run() returned Ok on the test tape in which the first
\* instruction overwrites the next opcode.
C5_Witness ==
    /\ op = "run" /\ run_ret = OkUnit /\ since_load = "run"
    /\ tape = <<1, 1, 1, 4, 99, 5, 6, 0, 99>>
    /\ memory = <<30, 1, 1, 4, 2, 5, 6, 0, 99>>

\* The instruction of the last step addresses a cell past the end: one of
\* its operand cells pc+1 .. pc+3, or one of a, b, dst.
PreOutOfBounds ==
    /\ PreIsArith
    /\ \/ ~InBounds(pre_memory, pre_pc + 3)
       \/ ~InBounds(pre_memory, PreA)
       \/ ~InBounds(pre_memory, PreB)
       \/ ~InBounds(pre_memory, PreDst)

\* C6: a step on an Add or Multiply word that references an address >= len
\* (a, b or dst), or whose operand cells lie past the end of the tape,
\* fails with an out-of-bounds error and leaves memory and program counter
\* as they were.  Stated as the claim states it; the code panics instead
\* when a and b are in bounds, their result overflows and dst is out of
\* bounds.
C6_OutOfBoundsFails ==
    PreOutOfBounds =>
        /\ ret.kind \in {"ReadOverflow", "WriteOverflow"}
        /\ memory = pre_memory
        /\ program_counter = pre_pc

\* C7: a step whose opcode word is none of 1, 2, 99 fails with the
\* unknown-opcode error for that word, whatever the following cells hold
\* and also when there are none, and leaves memory and program counter
\* unchanged.
C7_UnknownOpcodeFails ==
    (Fetched /\ PreCode \notin {OPERATION_CODE_ADD, OPERATION_CODE_MULTIPLY,
                                OPERATION_CODE_HALT}) =>
        /\ ret = UnknownOpcode(PreCode)
        /\ memory = pre_memory
        /\ program_counter = pre_pc

\* C7 witness: the unknown word sat in the last cell of the tape, after an
\* earlier instruction.
C7_Witness ==
    /\ Fetched
    /\ ret.kind = "UnknownOpcode"
    /\ pre_pc = Len(pre_memory) - 1
    /\ pre_pc > 0

\* C8: the memory always has the length of the tape the VM was loaded with.
C8_LengthConstant == Len(memory) = Len(tape)

\* C8 witness: steps have succeeded, halted and failed on one machine since
\* its load: a write changed the memory and a later step failed.
C8_Witness ==
    /\ IsErr(ret)
    /\ memory # tape
    /\ Len(memory) > 0

\* C9: reset(tape) leaves memory equal to tape and the program counter 0,
\* whatever the machine had done before; a reset(tape) directly after a
\* reset(tape) changes neither.
C9_Reset ==
    [][op' = "reset" =>
          /\ memory' = tape'
          /\ program_counter' = 0
          /\ (op = "reset" /\ tape' = tape) =>
                 (memory' = memory /\ program_counter' = program_counter)]_vars

\* C9 witness: a machine that had advanced into a program was reset to a
\* non-empty tape.
C9_Witness ==
    /\ op = "reset"
    /\ prior \in {"mid", "halted", "failed"}
    /\ Len(tape) > 0
    /\ memory = tape /\ program_counter = 0

\* C10: run() on a machine loaded with a tape, by from_tape or by reset
\* after any history, ends as run() on a fresh machine of that tape does:
\* the same outcome (Ok, the same error, or the same panic) and the same
\* final memory and program counter.
C10_RunDeterministic ==
    (since_load = "run" /\ (~in_run \/ ret = Panic)) =>
        LET fresh == run(tape, 0, overflow_checks)
        IN  /\ memory = fresh.memory
            /\ program_counter = fresh.program_counter
            /\ IF ret = Panic THEN fresh.ret = Panic ELSE run_ret = fresh.ret

\* C10 witness: a machine reset after a failed step ran a program of at
\* least two instructions to its halt.
C10_Witness ==
    /\ since_load = "run" /\ ~in_run
    /\ op = "run" /\ prior = "failed"
    /\ run_ret = OkUnit
    /\ program_counter > 0
    /\ memory # tape

\* ------------------------------------------------- claims on the search
\* The j-th pair of the noun-major ascending order, j in 0 .. 9999.
PairNoun(j) == j \div SEARCH_RANGE
PairVerb(j) == j % SEARCH_RANGE

\* The run of a fresh machine on a fresh copy of the caller's tape with the
\* j-th pair in cells 1 and 2.
FreshTrial(j) == run(Substitute(s_given, PairNoun(j), PairVerb(j)), 0, overflow_checks)

\* The fresh trial of the j-th pair runs to halt and leaves the target in
\* cell 0 / leaves something else there.
Matches(j) ==
    /\ FreshTrial(j).ret = OkUnit
    /\ get_scalar_at(FreshTrial(j).memory, 0) = COMPUTE_SOLUTION_2_TARGET
HaltsWithoutMatch(j) ==
    /\ FreshTrial(j).ret = OkUnit
    /\ get_scalar_at(FreshTrial(j).memory, 0) # COMPUTE_SOLUTION_2_TARGET

\* The position of the pair the search stopped at.
StoppedAt == SEARCH_RANGE * noun + verb

\* The search has returned on a tape with cells 1 and 2.
SearchDone == s_pc = "done" /\ Len(s_given) >= 3

\* C11: the search stops at the first pair, in noun-major ascending order,
\* whose fresh trial does not halt without a match: every earlier pair halts
\* without a match on a fresh copy of the tape; it returns 100 * noun + verb
\* exactly when the fresh trial of that pair matches, its VM then holds the
\* memory of that fresh trial, and the caller's tape is as it was passed.
C11_SearchReturnsFirstMatch ==
    SearchDone =>
        /\ noun \in 0 .. SEARCH_RANGE - 1 /\ verb \in 0 .. SEARCH_RANGE - 1
        /\ \A j \in 0 .. StoppedAt - 1 : HaltsWithoutMatch(j)
        /\ Matches(StoppedAt) <=> s_ret.kind = "OkValue"
        /\ s_ret.kind = "OkValue" =>
               /\ s_ret.arg = 100 * PairNoun(StoppedAt) + PairVerb(StoppedAt)
               /\ memory = FreshTrial(StoppedAt).memory
        /\ s_tape = s_given

\* C11 witness: the search returned a pair with noun > 0 and verb > 0 that
\* is not the first match of the verb-major order.
C11_Witness ==
    /\ SearchDone
    /\ s_ret.kind = "OkValue"
    /\ noun > 0 /\ verb > noun
    /\ Matches(SEARCH_RANGE * verb + noun)

\* C12: the search returns the no-solution error exactly when the fresh
\* trials of all 100 x 100 pairs halt without a match, and then it has run
\* all 10,000 trials.
C12_NoSolutionAfterAllPairs ==
    SearchDone =>
        /\ s_ret = NoSolution <=>
               \A j \in 0 .. SEARCH_RANGE * SEARCH_RANGE - 1 : HaltsWithoutMatch(j)
        /\ s_ret = NoSolution =>
               /\ trials = SEARCH_RANGE * SEARCH_RANGE
               /\ StoppedAt = SEARCH_RANGE * SEARCH_RANGE - 1

\* C12 witness: the search returned the no-solution error on a program that
\* computes in every trial.
C12_Witness ==
    /\ SearchDone
    /\ s_ret = NoSolution
    /\ Len(s_given) = SEARCH_RANGE
    /\ memory # tape

\* ---------------------------------------------- claims on the day-5 VM
\* C13: in the day-5 VM a step at a cell holding 99 returns Ok(true) and
\* leaves memory and program counter unchanged, so a run() whose step
\* fetches a 99 returns Ok.  Stated as the claim states it; the code returns
\* Ok(false) for Halt and advances the program counter.
C13_Day5HaltStep ==
    (Fetched /\ PreCode = OPERATION_CODE_HALT) =>
        /\ ret = OkTrue
        /\ memory = pre_memory
        /\ program_counter = pre_pc
        /\ op = "run" => (~in_run /\ run_ret = OkUnit)

\* C14: in the day-5 VM a step on the word 1 or 2 with operands in bounds
\* returns Ok(false), writes the sum or product to the destination cell and
\* advances the program counter by 4, as the step of day 2 does.  Stated as
\* the claim states it; the code panics while decoding a word of one digit.
C14_Day5OneDigitArith ==
    PreAllInBounds =>
        /\ ret = OkFalse
        /\ memory = step(pre_memory, pre_pc, overflow_checks).memory
        /\ PreFits
        /\ get_scalar_at(memory, PreDst) = PreMathResult
        /\ program_counter = pre_pc + 4

\* The digits of a word above its two low-order digits.
ModeDigits(word) == SubSeq(ToChars(word), 1, Len(ToChars(word)) - 2)

\* The word carries one of the opcodes 01, 02, 99 in its two low-order
\* digits and at least one digit above them.
HasModeDigits(word) ==
    /\ word >= 100
    /\ word % 100 \in {OPERATION_CODE_ADD, OPERATION_CODE_MULTIPLY, OPERATION_CODE_HALT}

\* Every digit above the opcode is a known parameter mode (0 or 1).
ModesKnown(word) == \A i \in 1 .. Len(ModeDigits(word)) : ModeDigits(word)[i] \in {0, 1}

\* The instruction the two low-order digits name.
InsOfOpcode(opcode) ==
    IF opcode = OPERATION_CODE_ADD THEN "Add"
    ELSE IF opcode = OPERATION_CODE_MULTIPLY THEN "Multiply"
    ELSE "Halt"

\* C15: decode takes the opcode from the two low-order digits of the word:
\* a fetched word whose low digits are 01, 02 or 99 and whose higher digits
\* are each 0 or 1 decodes to Add, Multiply or Halt (the operand cells of an
\* Add or Multiply being inside the tape).  Stated as the claim states it;
\* the code matches the whole word and fails with the unknown-opcode error.
C15_DecodeLowDigits ==
    (/\ Fetched
     /\ HasModeDigits(PreCode) /\ ModesKnown(PreCode)
     /\ (PreCode % 100 # OPERATION_CODE_HALT => InBounds(pre_memory, pre_pc + 3))) =>
        day5_decode(pre_pc, PreCode, pre_memory).ins = InsOfOpcode(PreCode % 100)

\* C16: a step on a word with one of the opcodes 01, 02, 99 and a parameter
\* mode digit other than 0 and 1 fails with the unknown-addressing-mode
\* error, which is not the unknown-opcode error, and leaves memory and
\* program counter unchanged.  Stated as the claim states it; the code never
\* calls parse_instruction_mode and fails with the unknown-opcode error.
C16_UnknownAddressingMode ==
    (Fetched /\ HasModeDigits(PreCode) /\ ~ModesKnown(PreCode)) =>
        /\ ret.kind = "UnknownAddressingMode"
        /\ memory = pre_memory
        /\ program_counter = pre_pc

\* The last step fetched an Add or Multiply whose a and b are in bounds and
\* whose mathematical result does not fit a Scalar.
PreOverflows ==
    /\ PreOperandsFetched
    /\ InBounds(pre_memory, PreA)
    /\ InBounds(pre_memory, PreB)
    /\ ~PreFits

\* C17: an Add or Multiply whose mathematical result does not fit the
\* Scalar width fails with an error and leaves memory unchanged.  Stated as
\* the claim states it; the code panics or stores the wrapped value.
C17_OverflowFails ==
    PreOverflows =>
        /\ IsErr(ret)
        /\ memory = pre_memory

\* The opcode word of Output.
OPERATION_CODE_OUTPUT == 4

\* C18: a step on the word 4 with src = mem[pc+1] in bounds returns
\* Ok(false), leaves memory unchanged, advances the program counter by 2 and
\* leaves mem[src] as the last value of the output sequence.  Stated as the
\* claim states it; the code panics while decoding the one-digit word (and
\* has no output sequence to append to).
C18_OutputStep ==
    (/\ Fetched /\ PreCode = OPERATION_CODE_OUTPUT
     /\ InBounds(pre_memory, pre_pc + 1)
     /\ InBounds(pre_memory, PreA)) =>
        /\ ret = OkFalse
        /\ memory = pre_memory
        /\ program_counter = pre_pc + 2
        /\ output # <<>>
        /\ output[Len(output)] = get_scalar_at(pre_memory, PreA)

\* ------------------------------------- claims on the password validator
\* validate has returned for a password of six digits.
Validated == pw_result # NoResult /\ Len(pw_raw) = PASSWORD_EXPECTED_LENGTH

\* Some digit is smaller than the digit immediately before it.
Decreases(raw) == \E i \in 1 .. Len(raw) - 1 : raw[i + 1] < raw[i]

RunOfTwoAt(raw, i) ==
    /\ raw[i] = raw[i + 1]
    /\ (i = 1 \/ raw[i - 1] # raw[i])
    /\ (i + 1 = Len(raw) \/ raw[i + 2] # raw[i])

HasRunOfTwo(raw) == \E i \in 1 .. Len(raw) - 1 : RunOfTwoAt(raw, i)

\* Some run of equal digits has length 3 or more.
HasRunOfThree(raw) ==
    \E i \in 1 .. Len(raw) - 2 : raw[i] = raw[i + 1] /\ raw[i + 1] = raw[i + 2]

\* C20: for part Two, validation of a 6-digit string with non-decreasing
\* digits returns Valid exactly when some maximal run of equal digits has
\* length exactly 2; otherwise TooManySuccessiveDigits when some run has
\* length 3 or more, and NoTwoAdjacentDigits when all digits are distinct.
C20_PartTwoRuns ==
    (Validated /\ pw_part = "Two" /\ ~Decreases(pw_raw)) =>
        pw_result = IF HasRunOfTwo(pw_raw) THEN Valid
                    ELSE IF HasRunOfThree(pw_raw) THEN TooManySuccessiveDigits
                    ELSE NoTwoAdjacentDigits

\* C20 witness: part Two accepted a password with a run of four digits and
\* a run of two.
C20_Witness ==
    /\ Validated /\ pw_part = "Two" /\ ~Decreases(pw_raw)
    /\ pw_result = Valid
    /\ HasRunOfThree(pw_raw) /\ HasRunOfTwo(pw_raw)

\* ------------------------------------------- claims on the wire puzzle
\* The positions a wire reaches after 1, 2, ... steps from `from`.
RECURSIVE Trace(_, _)
Trace(w, from) ==
    IF w = <<>> THEN <<>>
    ELSE LET unit == as_unit_vector(Head(w))
             segment == [k \in 1 .. Head(w).length |->
                            [x |-> from.x + k * unit.x, y |-> from.y + k * unit.y]]
         IN  segment \o Trace(Tail(w), segment[Len(segment)])

\* The number of steps a wire takes to first reach p.
FirstReach(trace, p) == MinOf({i \in 1 .. Len(trace) : trace[i] = p})

\* The non-origin grid points both wires visit.
SharedPoints(w1, w2) ==
    LET t1 == Trace(w1, ORIGIN)
        t2 == Trace(w2, ORIGIN)
    IN  ({t1[i] : i \in 1 .. Len(t1)} \cap {t2[i] : i \in 1 .. Len(t2)}) \ {ORIGIN}

\* The least combined number of first-reach steps over the shared points.
LeastCombinedSteps(w1, w2) ==
    LET t1 == Trace(w1, ORIGIN)
        t2 == Trace(w2, ORIGIN)
    IN  MinOf({FirstReach(t1, p) + FirstReach(t2, p) : p \in SharedPoints(w1, w2)})

\* C21: for every pair of wires that share a non-origin point, self-crossing
\* wires and wires returning to the origin included, the second solution
\* returns the minimum over the shared non-origin points of the sum of the
\* steps each wire takes to first reach the point.  Stated as the claim
\* states it; the path keeps the last step count of a revisited position.
C21_WireLeastSteps ==
    (w_result # NoResult /\ SharedPoints(wire1, wire2) # {}) =>
        w_result = OkValue(LeastCombinedSteps(wire1, wire2))

\* ---------------------------------------- further claims on the day-2 VM
\* The tape of test_virtual_machine_bug and its memory after one step.
BUG_TAPE == <<1, 1, 1, 4, 99, 5, 6, 0, 99>>
BUG_TAPE_STEPPED == <<1, 1, 1, 4, 2, 5, 6, 0, 99>>

\* C22: each step decodes from the current memory, not from the loaded
\* tape: the opcode and the operands it executes are the words the memory
\* held when the step began, overwritten or not.  On the tape
\* [1,1,1,4,99,5,6,0,99] the 99 of cell 4 is replaced by 2 and the second
\* step executes it as a Multiply.
C22_DecodesCurrentMemory ==
    /\ Fetched =>
          /\ PreCode = OPERATION_CODE_HALT => ret = OkTrue
          /\ PreCode \notin {OPERATION_CODE_ADD, OPERATION_CODE_MULTIPLY,
                             OPERATION_CODE_HALT} => ret = UnknownOpcode(PreCode)
          /\ PreIsArith => ret.kind \notin {"OkTrue", "UnknownOpcode"}
          /\ (PreAllInBounds /\ PreFits) =>
                 /\ ret = OkFalse
                 /\ get_scalar_at(memory, PreDst) = PreMathResult
    /\ (Stepped /\ pre_memory = BUG_TAPE_STEPPED /\ pre_pc = 4) =>
          /\ ret = OkFalse
          /\ memory = <<30, 1, 1, 4, 2, 5, 6, 0, 99>>
          /\ program_counter = 8

\* C22 witness: the second step on the test tape executed the word 2 that
\* the first step had written over the 99 of cell 4.
C22_Witness ==
    /\ Stepped /\ tape = BUG_TAPE
    /\ pre_memory = BUG_TAPE_STEPPED /\ pre_pc = 4
    /\ get_scalar_at(pre_memory, pre_pc) # get_scalar_at(tape, pre_pc)
    /\ ret = OkFalse
    /\ get_scalar_at(memory, 0) = 30

\* C23: the halted state is absorbing: once a step() has returned Ok(true),
\* every later step() without a reset in between returns Ok(true) and
\* leaves memory and program counter unchanged; only reset leaves Halted.
C23_HaltedAbsorbing ==
    [][(ret = OkTrue /\ op' # "reset") =>
          /\ ret' = OkTrue
          /\ memory' = memory
          /\ program_counter' = program_counter]_vars

\* C23 witness: a run() halted, and a step() called on the halted machine
\* afterwards (no reset: the result of the run is still recorded) returned
\* Ok(true) again, past the start of a program that had written memory.
C23_Witness ==
    /\ op = "step" /\ run_ret = OkUnit
    /\ ret = OkTrue
    /\ memory = pre_memory /\ program_counter = pre_pc
    /\ program_counter > 0
    /\ memory # tape

\* C24: run() stops at the first failing step and returns that step's
\* error: the loop is left (no further step), the failing step changes
\* neither memory nor program counter, and the writes and counter advances
\* of the earlier successful steps stay (when run() was the first call
\* after the load they are those of the successful steps from the tape).
C24_RunStopsAtFirstError ==
    [][(in_run /\ IsErr(ret')) =>
          /\ ~in_run'
          /\ run_ret' = ret'
          /\ memory' = memory
          /\ program_counter' = program_counter
          /\ since_load' = "run" =>
                 /\ memory' = run(tape, 0, overflow_checks).memory
                 /\ program_counter' = run(tape, 0, overflow_checks).program_counter]_vars

\* C24 witness: a run() returned the error of a step that followed
\* successful steps whose writes and counter advance are still there.
C24_Witness ==
    /\ op = "run" /\ ~in_run /\ since_load = "run"
    /\ IsErr(run_ret) /\ ret = run_ret
    /\ memory # tape
    /\ program_counter > 0

\* C25: no address is clamped into range, the opcode fetch included: after
\* an Add or Multiply that occupied the last four cells of the tape
\* (pc + 4 = len) has succeeded, the next step() fails with the
\* out-of-bounds read error for address len and changes nothing.  Stated
\* as the claim states it; the code clamps the program counter to len - 1
\* and the next step fetches the last cell.
C25_FetchNotClamped ==
    [][(/\ ret = OkFalse
        /\ pre_pc + PC_ADVANCE = Len(memory)
        /\ (op' = "step" \/ in_run)) =>
          /\ ret' = ReadOverflow(Len(memory))
          /\ memory' = memory]_vars

\* ------------------------------------------ further claims on the search
\* The fresh trial of the j-th pair fails with an error.
Fails(j) == IsErr(FreshTrial(j).ret)

\* C26: if the VM run of a trial fails, the search returns that failure at
\* once: when the fresh trial of a pair fails and every earlier pair has
\* halted without a match, the search returns the error of that trial
\* having run no trial after it, also when a later pair would leave the
\* target in cell 0.
C26_SearchReturnsFailure ==
    SearchDone =>
        \A j \in 0 .. SEARCH_RANGE * SEARCH_RANGE - 1 :
            (Fails(j) /\ \A i \in 0 .. j - 1 : HaltsWithoutMatch(i)) =>
                /\ s_ret = FreshTrial(j).ret
                /\ StoppedAt = j
                /\ trials = j + 1
                /\ memory = FreshTrial(j).memory

\* C26 witness: the search returned the read error of the trial (0, 6)
\* although the pair (1, 5), later in the order, matches.
C26_Witness ==
    /\ SearchDone
    /\ IsErr(s_ret)
    /\ StoppedAt = 6
    /\ \E j \in StoppedAt + 1 .. 2 * SEARCH_RANGE - 1 : Matches(j)

\* ----------------------------------------------- termination of run()
\* A step that returned Ok(false) moved the program counter strictly
\* forward, and not past the last cell.
PcMovesForward ==
    (Stepped /\ ret = OkFalse) =>
        /\ program_counter > pre_pc
        /\ program_counter <= Len(memory) - 1

\* C27 as stated: every Ok(false) step strictly increases the program
\* counter, which never exceeds len - 1, and run() makes at most len calls
\* of step() before it returns.  The bound fails on the empty tape, where
\* run() makes one call (the fetch at 0 fails) and len is 0.
C27_RunWithinLenSteps ==
    /\ PcMovesForward
    /\ op = "run" => run_steps <= Len(memory)

\* The bound on the calls of step() in one run(): len, and 1 for the empty tape.
StepBound == IF Len(memory) = 0 THEN 1 ELSE Len(memory)

\* C27 amended: every Ok(false) step strictly increases the program
\* counter, which never exceeds len - 1, and run() makes at most
\* max(len, 1) calls of step(): when it has made that many it has returned
\* Ok or an error, or the process has panicked.  No tape makes it loop forever.
C27_RunTerminates ==
    /\ PcMovesForward
    /\ op = "run" =>
          /\ run_steps <= StepBound
          /\ run_steps = StepBound => (~in_run \/ ~Alive)

\* C27 witness: a run() that made several calls of step() on a program
\* that wrote its memory has returned.
C27_Witness ==
    /\ op = "run" /\ ~in_run /\ run_ret # NoResult
    /\ run_steps >= 3
    /\ memory # tape

\* C28: the search called on a tape of fewer than 3 cells (no cell 1 or no
\* cell 2 to substitute into) returns an error value to its caller and
\* never aborts the process.  Stated as the claim states it; the code
\* unwraps get_mut(1) and get_mut(2) and panics.
C28_ShortTapeReturnsError ==
    (s_pc = "done" /\ Len(s_given) < 3) =>
        /\ s_ret # Panic
        /\ IsErr(s_ret) \/ s_ret = NoSolution

====
